---- MODULE Spec2Model ----
(***************************************************************************)
(* Traffic-frame rendering and timeline playback of static/map.js.         *)
(*                                                                         *)
(* The state is the timeline controls (checkboxes, selectors, slider,      *)
(* disabled flags, play icon), the module variables timeMin, timeMax and   *)
(* playInterval, the interval timers of the event loop, the suspended      *)
(* calls of loadTrafficForCurrentSlider (one per fetch in flight), the     *)
(* position of the map 'load' handler, and the frame pushed to the         *)
(* rendering layers (stats, legend, traffic data, peak marker, labels).    *)
(* Every action is one event handler, run to completion: JavaScript runs   *)
(* a handler without yielding until it returns or awaits.                  *)
(***************************************************************************)
EXTENDS Integers, Sequences, FiniteSets, TLC

(***************************************************************************)
(* Bounds of the model.                                                    *)
(***************************************************************************)
\* slider.max, an attribute of the page (the page is not part of map.js).
SliderMax == 21
\* slider.max of the page under which the frame loader is checked.
NetSliderMax == 3
\* The most fetches of /api/map/traffic in flight at once.
MaxInFlight == 2
\* The most interval timers the event loop holds at once.
MaxTimers == 2
\* The greatest slider.max of the pages under which playback is checked.
PlayMax == 6

(***************************************************************************)
(* Program constants.                                                      *)
(***************************************************************************)
PrevNextStep == 20
TickStep == 2
WindowMinutes == 5

(***************************************************************************)
(* JavaScript values.  A number is Num(n); NaN, null and undefined are     *)
(* values of their own, so that Number.isFinite, Number() and truthiness   *)
(* are computed as the language computes them.                             *)
(***************************************************************************)
Num(n) == [t |-> "num", v |-> n]
NaN == [t |-> "nan", v |-> 0]
Null == [t |-> "null", v |-> 0]
Undefined == [t |-> "undefined", v |-> 0]
\* A string that is no numeral, such as "n/a".
Text == [t |-> "string", v |-> 0]

\* Number.isFinite(x): true only for a number that is neither NaN nor infinite.
IsFinite(x) == x.t = "num"

\* Number(x): undefined -> NaN, null -> 0, a number -> itself.
ToNumber(x) ==
  CASE x.t = "num" -> x
    [] x.t = "null" -> Num(0)
    [] OTHER -> NaN

Min2(a, b) == IF a < b THEN a ELSE b
Max2(a, b) == IF a > b THEN a ELSE b

(***************************************************************************)
(* Number.prototype.toFixed(2) on an integer: the decimal digits, a minus  *)
(* sign for a negative value, and two zero decimals.                       *)
(***************************************************************************)
Digit(d) == <<"0", "1", "2", "3", "4", "5", "6", "7", "8", "9">>[d + 1]

RECURSIVE NatStr(_)
NatStr(n) == IF n < 10 THEN Digit(n) ELSE NatStr(n \div 10) \o Digit(n % 10)

toFixed2(n) == (IF n < 0 THEN "-" \o NatStr(-n) ELSE NatStr(n)) \o ".00"

(***************************************************************************)
(* GeoJSON.  A feature is a record                                         *)
(*   [isNull, geomType, coordinates, hasProps, value, vehicles]            *)
(* isNull is an entry null of the features array; geomType "none" is a     *)
(* feature without geometry; hasProps is false for a feature without       *)
(* properties; value is a JavaScript value; coordinates is a sequence of   *)
(* <<x, y>> pairs.  Coordinates are even integers, so that the halving of  *)
(* getLineMiddlePoint is exact.                                            *)
(***************************************************************************)
Feature(g, c, val, veh) ==
  [isNull |-> FALSE, geomType |-> g, coordinates |-> c, hasProps |-> TRUE,
   value |-> val, vehicles |-> veh]

\* A feature without the properties member.
Bare(g, c) ==
  [isNull |-> FALSE, geomType |-> g, coordinates |-> c, hasProps |-> FALSE,
   value |-> Undefined, vehicles |-> 0]

\* An entry null of the features array.
NullFeature ==
  [isNull |-> TRUE, geomType |-> "none", coordinates |-> << >>, hasProps |-> FALSE,
   value |-> Undefined, vehicles |-> 0]

FC(fs) == [type |-> "FeatureCollection", features |-> fs]

EmptyFC == FC(<< >>)

\* A JSON payload: null, a non-object (a number), or an object
\*   [kind, type, featuresIsArray, features, stats]
\* where stats is NoStats or a record with JavaScript values min and max.
NoStats == [present |-> FALSE, min |-> Undefined, max |-> Undefined]
Stats(lo, hi) == [present |-> TRUE, min |-> lo, max |-> hi]

JsonNull == [kind |-> "null", type |-> "", featuresIsArray |-> FALSE,
             features |-> << >>, stats |-> NoStats]
JsonNumber == [kind |-> "number", type |-> "", featuresIsArray |-> FALSE,
               features |-> << >>, stats |-> NoStats]
JsonObject(ty, isArr, fs, st) ==
  [kind |-> "object", type |-> ty, featuresIsArray |-> isArr,
   features |-> fs, stats |-> st]

\* normalizeFeatureCollection(fc)
normalizeFeatureCollection(fc) ==
  IF fc.kind = "object" /\ fc.type = "FeatureCollection" /\ fc.featuresIsArray
  THEN FC(fc.features)
  ELSE EmptyFC

(***************************************************************************)
(* getFeatureCollectionBounds.  The coordinates of a geometry are a tree:   *)
(* a number (finite or, as 1e999 parses, infinite), an array of trees, or  *)
(* any other JSON value.  A feature of the static roads is a record        *)
(*   [isNull, hasGeometry, hasCoordinates, coordinates].                   *)
(***************************************************************************)
Coord(n) == [k |-> "num", finite |-> TRUE, n |-> n, items |-> << >>]
Infinite == [k |-> "num", finite |-> FALSE, n |-> 0, items |-> << >>]
Arr(items) == [k |-> "arr", finite |-> FALSE, n |-> 0, items |-> items]
Junk == [k |-> "other", finite |-> FALSE, n |-> 0, items |-> << >>]

Pos(x, y) == Arr(<< Coord(x), Coord(y) >>)

Shape(coords) ==
  [isNull |-> FALSE, hasGeometry |-> TRUE, hasCoordinates |-> TRUE,
   coordinates |-> coords]
NoGeometry ==
  [isNull |-> FALSE, hasGeometry |-> FALSE, hasCoordinates |-> FALSE,
   coordinates |-> Junk]
NoCoordinates ==
  [isNull |-> FALSE, hasGeometry |-> TRUE, hasCoordinates |-> FALSE,
   coordinates |-> Junk]
NullShape ==
  [isNull |-> TRUE, hasGeometry |-> FALSE, hasCoordinates |-> FALSE,
   coordinates |-> Junk]

\* let minX = Infinity, ..., hasData = false
NoBox == [hasData |-> FALSE, minX |-> 0, minY |-> 0, maxX |-> 0, maxY |-> 0]

\* (mutant) only the first pair found is kept.
ExtendKeepsFirst(box, x, y) ==
  IF ~box.hasData
  THEN [hasData |-> TRUE, minX |-> x, minY |-> y, maxX |-> x, maxY |-> y]
  ELSE box

\* Lines 77-81: the box grown to hold the pair <<x, y>>.
Extend(box, x, y) ==
  IF ~box.hasData
  THEN [hasData |-> TRUE, minX |-> x, minY |-> y, maxX |-> x, maxY |-> y]
  ELSE [hasData |-> TRUE, minX |-> Min2(box.minX, x), minY |-> Min2(box.minY, y),
        maxX |-> Max2(box.maxX, x), maxY |-> Max2(box.maxY, y)]

\* An array of at least two entries whose first two are numbers.
IsPosition(coords) ==
  /\ coords.k = "arr" /\ Len(coords.items) >= 2
  /\ coords.items[1].k = "num" /\ coords.items[2].k = "num"

RECURSIVE scanCoordinates(_, _)
RECURSIVE ScanItems(_, _, _)

\* scanCoordinates(coords), with the running box passed along.
scanCoordinates(coords, box) ==
  IF IsPosition(coords)
  THEN IF coords.items[1].finite /\ coords.items[2].finite
       THEN Extend(box, coords.items[1].n, coords.items[2].n)
       ELSE box
  ELSE IF coords.k = "arr" THEN ScanItems(coords.items, 1, box)
  ELSE box

\* for (const item of coords) scanCoordinates(item)
ScanItems(items, i, box) ==
  IF i > Len(items) THEN box
  ELSE ScanItems(items, i + 1, scanCoordinates(items[i], box))

\* for (const feature of fc.features) ...
RECURSIVE ScanFeatures(_, _, _)
ScanFeatures(fs, i, box) ==
  IF i > Len(fs) THEN box
  ELSE IF ~fs[i].isNull /\ fs[i].hasGeometry /\ fs[i].hasCoordinates
       THEN ScanFeatures(fs, i + 1, scanCoordinates(fs[i].coordinates, box))
       ELSE ScanFeatures(fs, i + 1, box)

\* getFeatureCollectionBounds(fc): null, or [[minX, minY], [maxX, maxY]].
getFeatureCollectionBounds(fc) ==
  LET box == ScanFeatures(fc.features, 1, NoBox)
  IN IF ~box.hasData THEN Null
     ELSE [t |-> "bounds",
           v |-> << <<box.minX, box.minY>>, <<box.maxX, box.maxY>> >>]

\* getLineMiddlePoint(coords): midpoint of the first and the last point.
getLineMiddlePoint(coords) ==
  IF Len(coords) < 2 THEN Null
  ELSE [t |-> "point",
        v |-> << (coords[1][1] + coords[Len(coords)][1]) \div 2,
                 (coords[1][2] + coords[Len(coords)][2]) \div 2 >>]

(***************************************************************************)
(* getPeakPoint: the scan for the feature of strictly greatest finite      *)
(* value, then the marker descriptor of that feature.                      *)
(***************************************************************************)
NoBest == [found |-> FALSE, value |-> 0, index |-> 0]

\* (mutant) a later feature of equal value replaces the best one.
RECURSIVE ScanBestLastSeen(_, _, _)
ScanBestLastSeen(fs, i, best) ==
  IF i > Len(fs) THEN best
  ELSE LET f == fs[i]
           value == IF f.hasProps THEN ToNumber(f.value) ELSE NaN
       IN IF f.isNull \/ ~f.hasProps \/ ~IsFinite(value)
          THEN ScanBestLastSeen(fs, i + 1, best)
          ELSE IF ~best.found \/ value.v >= best.value
               THEN ScanBestLastSeen(fs, i + 1, [found |-> TRUE, value |-> value.v, index |-> i])
               ELSE ScanBestLastSeen(fs, i + 1, best)

RECURSIVE ScanBest(_, _, _)
ScanBest(fs, i, best) ==
  IF i > Len(fs) THEN best
  ELSE LET f == fs[i]
           value == IF f.hasProps THEN ToNumber(f.value) ELSE NaN
       IN IF f.isNull \/ ~f.hasProps \/ ~IsFinite(value)
          THEN ScanBest(fs, i + 1, best)
          ELSE IF ~best.found \/ value.v > best.value
               THEN ScanBest(fs, i + 1, [found |-> TRUE, value |-> value.v, index |-> i])
               ELSE ScanBest(fs, i + 1, best)

\* (mutant) the thresholds belong to the lower stop.
RampStopInclusive(num, den) ==
  IF 100 * num <= 33 * den THEN 1
  ELSE IF 100 * num <= 66 * den THEN 2
  ELSE IF 10 * num <= 9 * den THEN 3
  ELSE 4

\* The stop of the 4-stop colour ramp for the ratio num/den (den > 0).
RampStop(num, den) ==
  IF 100 * num < 33 * den THEN 1
  ELSE IF 100 * num < 66 * den THEN 2
  ELSE IF 10 * num < 9 * den THEN 3
  ELSE 4

PeakColors == << <<46, 127, 255, 255>>, <<39, 209, 124, 255>>,
                 <<255, 212, 77, 255>>, <<255, 59, 59, 255>> >>

\* (mutant) the ratio is not clamped.
ClampedRatioUnclamped(value, minValue, maxValue) ==
  IF maxValue > minValue
  THEN << value - minValue, maxValue - minValue >>
  ELSE << 0, 1 >>

\* The ratio of a value in [minValue, maxValue], clamped to [0, 1], as the
\* pair <<numerator, denominator>>.
ClampedRatio(value, minValue, maxValue) ==
  IF maxValue > minValue
  THEN << Max2(0, Min2(maxValue - minValue, value - minValue)), maxValue - minValue >>
  ELSE << 0, 1 >>

\* Math.sqrt on a perfect square (the model's vehicle counts are squares).
Sqrt(n) == CHOOSE k \in 0..n : k * k <= n /\ (k + 1) * (k + 1) > n

\* The clamped ratio of the peak encoder, as <<numerator, denominator>>: a
\* bound of the stats that is not finite counts as 0 (min) or 1 (max).
PeakRatio(value, stats) ==
  LET minValue == IF stats.present /\ IsFinite(stats.min) THEN stats.min.v ELSE 0
      maxValue == IF stats.present /\ IsFinite(stats.max) THEN stats.max.v ELSE 1
  IN ClampedRatio(value, minValue, maxValue)

getPeakPoint(fc, stats) ==
  IF Len(fc.features) = 0 THEN Null
  ELSE LET best == ScanBest(fc.features, 1, NoBest)
       IN IF ~best.found THEN Null
          ELSE LET bestFeature == fc.features[best.index]
               IN IF bestFeature.geomType # "LineString" THEN Null
                  ELSE LET middle == getLineMiddlePoint(bestFeature.coordinates)
                           ratio == PeakRatio(best.value, stats)
                           size == Max2(22, Min2(56, 14 + Sqrt(Max2(bestFeature.vehicles, 0)) * 6))
                       IN IF middle.t = "null" THEN Null
                          ELSE [t |-> "peak",
                                v |-> [position |-> middle.v,
                                       color |-> PeakColors[RampStop(ratio[1], ratio[2])],
                                       size |-> size,
                                       icon |-> "marker",
                                       value |-> best.value]]

(***************************************************************************)
(* getLineColor of the traffic layer: the colour of one line, from its     *)
(* value and the stats the layer holds.                                    *)
(***************************************************************************)
\* a > b on JavaScript values: false when either side converts to NaN.
Greater(a, b) ==
  IsFinite(ToNumber(a)) /\ IsFinite(ToNumber(b)) /\ ToNumber(a).v > ToNumber(b).v

\* Number(feature.properties?.value ?? 0)
LineValue(feature) ==
  IF ~feature.hasProps \/ feature.value.t \in {"undefined", "null"} THEN Num(0)
  ELSE ToNumber(feature.value)

\* The clamped ratio of the line encoder, as <<numerator, denominator>>.
LineRatio(feature, stats) ==
  IF IsFinite(LineValue(feature)) /\ Greater(stats.max, stats.min)
  THEN ClampedRatio(LineValue(feature).v, ToNumber(stats.min).v, ToNumber(stats.max).v)
  ELSE << 0, 1 >>

LineColors == << <<46, 127, 255, 210>>, <<39, 209, 124, 210>>,
                 <<255, 212, 77, 210>>, <<255, 59, 59, 220>> >>

getLineColor(feature, stats) ==
  LineColors[RampStop(LineRatio(feature, stats)[1], LineRatio(feature, stats)[2])]

(***************************************************************************)
(* buildValuesLabels: one label per LineString with a midpoint, in input   *)
(* order.                                                                  *)
(***************************************************************************)
RECURSIVE LabelsFrom(_, _)
LabelsFrom(fs, i) ==
  IF i > Len(fs) THEN << >>
  ELSE LET f == fs[i]
           middle == getLineMiddlePoint(f.coordinates)
           value == IF f.hasProps THEN ToNumber(f.value) ELSE NaN
       IN IF f.geomType # "LineString" \/ middle.t = "null"
          THEN LabelsFrom(fs, i + 1)
          ELSE << [position |-> middle.v,
                   text |-> IF IsFinite(value) THEN toFixed2(value.v) ELSE ""] >>
               \o LabelsFrom(fs, i + 1)

buildValuesLabels(fc) == LabelsFrom(fc.features, 1)

\* buildValuesLabels reads feature.geometry of every entry: an entry null
\* makes it throw a TypeError.
LabelsThrow(fc) == \E i \in 1..Len(fc.features) : fc.features[i].isNull

(***************************************************************************)
(* Time codec.  A raw time of the metadata is a number, a date string,     *)
(* undefined or null.  A number n is kept as hi * 10^5 + lo, so that the   *)
(* millisecond threshold 1e10 (hi = 10^5) stays within the integers of the *)
(* checker; a date string carries the milliseconds Date parses it to.      *)
(***************************************************************************)
RawNum(hi, lo) == [t |-> "num", hi |-> hi, lo |-> lo]
RawDate(hi, lo) == [t |-> "date", hi |-> hi, lo |-> lo]
RawBadDate == [t |-> "baddate", hi |-> 0, lo |-> 0]
RawUndefined == [t |-> "undefined", hi |-> 0, lo |-> 0]
RawNull == [t |-> "null", hi |-> 0, lo |-> 0]

\* (mutant) milliseconds are rounded up to the next second.
toEpochSecondsRoundsUp(value) ==
  CASE value.t = "num" ->
         IF value.hi < 100000
         THEN Num(value.hi * 100000 + value.lo)
         ELSE Num(value.hi * 100 + (value.lo + 999) \div 1000)
    [] value.t = "date" -> Num(value.hi * 100 + value.lo \div 1000)
    [] value.t = "null" -> Num(0)
    [] OTHER -> NaN

\* toEpochSeconds(value)
toEpochSeconds(value) ==
  CASE value.t = "num" ->
         IF value.hi < 100000
         THEN Num(value.hi * 100000 + value.lo)
         ELSE Num(value.hi * 100 + value.lo \div 1000)
    [] value.t = "date" -> Num(value.hi * 100 + value.lo \div 1000)
    [] value.t = "null" -> Num(0)
    [] OTHER -> NaN

\* The JSON of /api/map/meta: which of the two key shapes it has, and the
\* raw bounds under it.
Meta(shape, lo, hi) == [shape |-> shape, min |-> lo, max |-> hi]

\* meta?.traffic?.time_min ?? meta?.traffic_time_range?.min (and max)
RawMin(meta) == IF meta.shape = "none" THEN RawUndefined ELSE meta.min
RawMax(meta) == IF meta.shape = "none" THEN RawUndefined ELSE meta.max

(***************************************************************************)
(* Timeline arithmetic.                                                    *)
(***************************************************************************)
\* Math.round: the nearest integer, a half rounded up; num / den, den > 0.
Round(num, den) == (2 * num + den) \div (2 * den)

\* getSliderEpoch(): null unless both bounds are finite.
getSliderEpoch(value, max, tMin, tMax) ==
  IF ~IsFinite(tMin) \/ ~IsFinite(tMax) THEN Null
  ELSE Num(tMin.v + Round(value * (tMax.v - tMin.v), max))

\* (mutant) the range is taken as seconds.
getWindowFromEpochInSeconds(centerEpoch, minutesRange) ==
  << centerEpoch - minutesRange, centerEpoch + minutesRange >>

\* getWindowFromEpoch(centerEpoch, minutesRange)
getWindowFromEpoch(centerEpoch, minutesRange) ==
  << centerEpoch - minutesRange * 60, centerEpoch + minutesRange * 60 >>

(***************************************************************************)
(* The inputs of the model.                                                *)
(***************************************************************************)
ClassOptions == {"all", "car"}
MetricOptions == {"count", "speed"}

Road2 == Feature("LineString", << <<0, 0>>, <<4, 2>> >>, Num(2), 4)
Road9 == Feature("LineString", << <<0, 0>>, <<4, 2>>, <<10, 10>> >>, Num(9), 49)

RoadsNoStats == JsonObject("FeatureCollection", TRUE, << Road9 >>, NoStats)
RoadsWithStats ==
  JsonObject("FeatureCollection", TRUE, << Road2, Road9 >>, Stats(Num(0), Num(10)))

\* The well-formed answers of /api/map/traffic.
FramePayloads == { RoadsNoStats, RoadsWithStats }

\* What /api/map/traffic may answer: null, a non-object, an object of another
\* type, an object whose features are no array, a FeatureCollection without
\* stats, and FeatureCollections with stats.
Payloads ==
  { JsonNull,
    JsonNumber,
    JsonObject("Feature", TRUE, << Road2 >>, Stats(Num(0), Num(10))),
    JsonObject("FeatureCollection", FALSE, << >>, NoStats),
    RoadsNoStats,
    RoadsWithStats }

\* What /api/map/roads_static answers: a road from (0, 0) to (10, 5).
StaticRoads ==
  JsonObject("FeatureCollection", TRUE, << Shape(Arr(<< Pos(0, 0), Pos(10, 5) >>)) >>,
             NoStats)

\* The feature arrays of the bounds' cases: none; two points; a line, a
\* polygon and a multi-polygon, nested two, three and four deep; positions
\* with an altitude; a position with an infinite number, alone and beside a
\* finite one; features without geometry or coordinates and a null entry;
\* arrays that are empty, too short or hold other values.
ShapeCases ==
  { << >>,
    << Shape(Pos(0, 0)), Shape(Pos(10, 5)) >>,
    << Shape(Arr(<< Pos(2, 8), Pos(6, -4) >>)),
       Shape(Arr(<< Arr(<< Pos(-2, 0), Pos(0, 12), Pos(4, 2) >>) >>)),
       Shape(Arr(<< Arr(<< Arr(<< Pos(14, 6) >>) >>), Arr(<< Arr(<< Pos(0, -8) >>) >>) >>)) >>,
    << Shape(Arr(<< Arr(<< Coord(2), Coord(4), Coord(98) >>),
                    Arr(<< Coord(6), Coord(0), Coord(-98) >>) >>)) >>,
    << Shape(Arr(<< Infinite, Coord(4) >>)) >>,
    << Shape(Arr(<< Arr(<< Coord(2), Infinite >>), Pos(6, 8) >>)) >>,
    << NoGeometry, NoCoordinates, NullShape >>,
    << NullShape, Shape(Pos(4, 4)), NoGeometry >>,
    << Shape(Arr(<< >>)), Shape(Arr(<< Coord(2) >>)), Shape(Junk), Shape(Coord(2)) >>,
    << Shape(Arr(<< Junk, Arr(<< Coord(2) >>), Pos(8, 2), Coord(50) >>)) >> }

\* What /api/map/roads_static answers in the bounds' cases.
RoadCases ==
  { JsonNull, JsonObject("FeatureCollection", FALSE, << >>, NoStats) }
  \cup { JsonObject("FeatureCollection", TRUE, fs, NoStats) : fs \in ShapeCases }

\* Features that put the frame builder to the test: a second road of the
\* greatest value, a point above every road, a line of one coordinate, roads
\* whose value is missing, null or no numeral, a road without properties and
\* a road of negative value.
Line(val) == Feature("LineString", << <<0, 0>>, <<4, 2>> >>, val, 4)
RoadTie == Feature("LineString", << <<2, 2>>, <<6, 6>> >>, Num(9), 0)
Stop12 == Feature("Point", << >>, Num(12), 1)
Stub5 == Feature("LineString", << <<8, 8>> >>, Num(5), 1)
RoadNoValue == Feature("LineString", << <<0, 2>>, <<2, 4>> >>, Undefined, 0)
RoadNullValue == Feature("LineString", << <<0, 4>>, <<2, 6>> >>, Null, 0)
RoadTextValue == Feature("LineString", << <<0, 6>>, <<2, 8>> >>, Text, 0)
RoadBare == Bare("LineString", << <<0, 8>>, <<2, 10>> >>)
RoadNeg == Feature("LineString", << <<0, 10>>, <<2, 12>> >>, Num(-3), 0)

\* The feature arrays of the frame builder's cases.
FeatureCases ==
  { << >>,
    << Road9, RoadTie >>,
    << RoadTie, Road9 >>,
    << Road2, Stop12 >>,
    << Stub5, Road2 >>,
    << RoadNoValue, RoadTextValue, RoadBare >>,
    << RoadNullValue, RoadNeg >>,
    << NullFeature, Road2 >> }

\* The stats of the frame builder's cases: absent, an empty range, a reversed
\* range, a range from a negative min, and a bound that is missing or null.
StatsCases ==
  { NoStats,
    Stats(Num(10), Num(10)),
    Stats(Num(5), Num(0)),
    Stats(Num(-10), Num(10)),
    Stats(Undefined, Num(10)),
    Stats(Num(0), Null) }

\* The values around the stops of the colour ramp, on the range 0..100.
RampValues == {-5, 0, 32, 33, 65, 66, 89, 90, 100, 120}

\* What /api/map/traffic answers in the frame builder's cases.
FrameCases ==
  Payloads
  \cup { JsonObject("FeatureCollection", TRUE, fs, Stats(Num(0), Num(10))) :
           fs \in FeatureCases }
  \cup { JsonObject("FeatureCollection", TRUE, << Road2, Road9 >>, st) :
           st \in StatsCases }
  \cup { JsonObject("FeatureCollection", TRUE, << Line(Num(v)) >>,
                    Stats(Num(0), Num(100))) : v \in RampValues }

\* What /api/map/meta may answer: either key shape with finite bounds, or
\* neither key shape.
Metas ==
  { Meta("traffic", RawNum(0, 1000), RawNum(0, 1002)),
    Meta("traffic_time_range", RawDate(10, 0), RawDate(10, 2000)),
    Meta("none", RawUndefined, RawUndefined) }

\* The metadata of the time codec's cases: seconds, today's seconds,
\* milliseconds from 1e10 on, today's milliseconds, date strings, a string
\* that is no date, and neither key shape.
MetaCases ==
  Metas
  \cup { Meta("traffic", RawNum(17000, 0), RawNum(17000, 600)),
         Meta("traffic", RawNum(100000, 0), RawNum(100000, 1500)),
         Meta("traffic_time_range", RawNum(17000000, 999), RawNum(17000000, 99999)),
         Meta("traffic_time_range", RawBadDate, RawBadDate),
         Meta("traffic", RawNum(0, 1000), RawBadDate) }

DefaultStats == Stats(Num(0), Num(1))

AllDisabled == [slider |-> TRUE, prev |-> TRUE, play |-> TRUE, next |-> TRUE]
AllEnabled == [slider |-> FALSE, prev |-> FALSE, play |-> FALSE, next |-> FALSE]

NoFetch == [fr |-> 0, to |-> 0, veh_class |-> "", metric |-> ""]
NoResponse == [got |-> FALSE, payload |-> JsonNull]

(***************************************************************************)
(* State.                                                                  *)
(***************************************************************************)
VARIABLES
  chkTraffic,      \* chkTraffic.checked
  chkRumore,       \* chkRumore.checked
  chkValues,       \* chkValues.checked
  classSelect,     \* classSelect.value
  metricSelect,    \* metricSelect.value
  sliderValue,     \* Number(slider.value)
  sliderMax,       \* Number(slider.max)
  disabled,        \* the disabled flags of slider, btnPrev, btnPlay, btnNext
  playIcon,        \* the class of #play-icon: "fa-play" or "fa-pause"
  timelineHidden,  \* timelineCard has the class 'hidden'
  legendHidden,    \* legendCard has the class 'hidden'
  layersVisible,   \* the visible prop of the traffic, peak and label layers
  timeMin,         \* let timeMin
  timeMax,         \* let timeMax
  playInterval,    \* let playInterval: 0 for null, else a timer handle
  timers,          \* the interval timers the event loop holds
  loadPc,          \* where the map 'load' handler is suspended
  roadsData,       \* the data of roadsLayer
  fitted,          \* the bounds last given to map.fitBounds, or null
  pending,         \* the calls of loadTrafficForCurrentSlider awaiting fetchJson
  newest,          \* the most recently issued of them: "none" issued yet,
                   \* "pending", "rendered" (its frame is the one shown),
                   \* "lost" (its frame was shown and then replaced by an
                   \* older call's), "failed" (it ended in an error)
  currentStats,    \* layers.currentStats
  legendMin,       \* legendMinLabel.textContent
  legendMax,       \* legendMaxLabel.textContent
  trafficData,     \* the data of trafficLayer
  peakData,        \* the data of peakIconLayer
  valuesData,      \* the data of valuesTextLayer
  lastResponse,    \* the last response fetchJson resolved with
  step             \* what the last handler did: refresh calls, fetch, error

controlVars == << chkTraffic, chkRumore, chkValues, classSelect, metricSelect,
                  sliderValue, sliderMax >>
timelineVars == << disabled, playIcon, playInterval, timers >>
cardVars == << timelineHidden, legendHidden >>
timeVars == << timeMin, timeMax >>
frameVars == << currentStats, legendMin, legendMax, trafficData, peakData,
                valuesData >>
mapVars == << roadsData, fitted >>
vars == << controlVars, timelineVars, cardVars, layersVisible, timeVars, loadPc, mapVars,
           pending, newest, frameVars, lastResponse, step >>

Quiet == [calls |-> 0, url |-> NoFetch, fetched |-> FALSE, threw |-> FALSE,
          resolved |-> FALSE, rejected |-> FALSE]

(***************************************************************************)
(* The state once DOMContentLoaded has installed the handlers.  The page   *)
(* decides which checkboxes start checked, where the slider starts and     *)
(* which cards start hidden; the timeline controls start disabled (the     *)
(* 'load' handler is what enables them) and the selectors start on their   *)
(* first option.                                                           *)
(***************************************************************************)
InitWith(max) ==
  /\ chkTraffic \in BOOLEAN
  /\ chkRumore \in BOOLEAN
  /\ chkValues \in BOOLEAN
  /\ classSelect = "all"
  /\ metricSelect = "count"
  /\ sliderMax = max
  /\ sliderValue \in 0..max
  /\ disabled = AllDisabled
  /\ playIcon = "fa-play"
  /\ timelineHidden \in BOOLEAN
  /\ legendHidden \in BOOLEAN
  /\ layersVisible = TRUE
  /\ timeMin = Null
  /\ timeMax = Null
  /\ playInterval = 0
  /\ timers = {}
  /\ loadPc = "idle"
  /\ roadsData = EmptyFC
  /\ fitted = Null
  /\ pending = 0
  /\ newest = "none"
  /\ currentStats = DefaultStats
  /\ legendMin = "min"
  /\ legendMax = "max"
  /\ trafficData = EmptyFC
  /\ peakData = << >>
  /\ valuesData = << >>
  /\ lastResponse = NoResponse
  /\ step = Quiet

Init == InitWith(SliderMax)

InitNet == InitWith(NetSliderMax)

(***************************************************************************)
(* setTimelineEnabled(isEnabled)                                           *)
(***************************************************************************)
\* (mutant) the timer is cleared but the icon is left as it is.
setTimelineEnabledKeepsIcon(isEnabled) ==
  /\ disabled' = [slider |-> ~isEnabled, prev |-> ~isEnabled,
                  play |-> ~isEnabled, next |-> ~isEnabled]
  /\ IF ~isEnabled /\ playInterval # 0
     THEN /\ timers' = timers \ {playInterval}
          /\ playInterval' = 0
          /\ playIcon' = playIcon
     ELSE UNCHANGED << timers, playInterval, playIcon >>

setTimelineEnabled(isEnabled) ==
  /\ disabled' = [slider |-> ~isEnabled, prev |-> ~isEnabled,
                  play |-> ~isEnabled, next |-> ~isEnabled]
  /\ IF ~isEnabled /\ playInterval # 0
     THEN /\ timers' = timers \ {playInterval}
          /\ playInterval' = 0
          /\ playIcon' = "fa-play"
     ELSE UNCHANGED << timers, playInterval, playIcon >>

(***************************************************************************)
(* updateTimelineAndLegendVisibility(), reading the checkboxes as the      *)
(* handler that calls it has left them.  flags are the disabled flags at   *)
(* the call: the 'load' handler enables the controls right before it.      *)
(***************************************************************************)
updateTimelineAndLegendVisibility(flags) ==
  IF chkTraffic' \/ chkRumore'
  THEN /\ timelineHidden' = FALSE
       /\ setTimelineEnabled(chkTraffic')
       /\ legendHidden' = ~chkTraffic'
  ELSE /\ timelineHidden' = TRUE
       /\ legendHidden' = TRUE
       /\ disabled' = flags
       /\ UNCHANGED << timers, playInterval, playIcon >>

(***************************************************************************)
(* loadTrafficForCurrentSlider up to its await: the two early returns,     *)
(* then the fetch of the window around the slider's epoch.  It reads the   *)
(* controls as the calling handler has left them.                          *)
(***************************************************************************)
TrafficUrl(epoch, vehicleClass, metric) ==
  LET window == getWindowFromEpoch(epoch, WindowMinutes)
  IN [fr |-> window[1], to |-> window[2], veh_class |-> vehicleClass,
      metric |-> metric]

\* (mutant) the check of the traffic checkbox is missing.
ReturnsEarlyIgnoresCheckbox(trafficChecked, epoch) == epoch.t = "null"

\* The two early returns: the traffic layer is off, or there is no epoch.
ReturnsEarly(trafficChecked, epoch) == ~trafficChecked \/ epoch.t = "null"

loadTrafficForCurrentSlider ==
  LET epoch == getSliderEpoch(sliderValue', sliderMax', timeMin', timeMax')
  IN IF ReturnsEarly(chkTraffic', epoch)
     THEN /\ step' = [Quiet EXCEPT !.calls = 1]
          /\ UNCHANGED << pending, newest >>
     ELSE /\ pending < MaxInFlight
          /\ pending' = pending + 1
          /\ newest' = "pending"
          /\ step' = [Quiet EXCEPT !.calls = 1, !.fetched = TRUE,
                        !.url = TrafficUrl(epoch.v, classSelect', metricSelect')]

\* A handler that does not call loadTrafficForCurrentSlider.
NoRefresh ==
  /\ step' = Quiet
  /\ UNCHANGED << pending, newest >>

(***************************************************************************)
(* Checkbox and selector handlers.                                         *)
(***************************************************************************)
\* chkTraffic 'change'
ChkTrafficChange ==
  /\ chkTraffic' = ~chkTraffic
  /\ UNCHANGED << chkRumore, chkValues, classSelect, metricSelect, sliderValue,
                  sliderMax, timeVars >>
  /\ layersVisible' = chkTraffic'
  /\ updateTimelineAndLegendVisibility(disabled)
  /\ IF chkTraffic' THEN loadTrafficForCurrentSlider ELSE NoRefresh
  /\ UNCHANGED << loadPc, mapVars, frameVars, lastResponse >>

\* chkRumore 'change'
ChkRumoreChange ==
  /\ chkRumore' = ~chkRumore
  /\ UNCHANGED << chkTraffic, chkValues, classSelect, metricSelect, sliderValue,
                  sliderMax, timeVars >>
  /\ updateTimelineAndLegendVisibility(disabled)
  /\ NoRefresh
  /\ UNCHANGED << layersVisible, loadPc, mapVars, frameVars, lastResponse >>

\* chkValues 'change'
ChkValuesChange ==
  /\ chkValues' = ~chkValues
  /\ UNCHANGED << chkTraffic, chkRumore, classSelect, metricSelect, sliderValue,
                  sliderMax, timeVars >>
  /\ loadTrafficForCurrentSlider
  /\ UNCHANGED << timelineVars, cardVars, layersVisible, loadPc, mapVars, frameVars,
                  lastResponse >>

\* classSelect 'change'
ClassChange(c) ==
  /\ c # classSelect
  /\ classSelect' = c
  /\ UNCHANGED << chkTraffic, chkRumore, chkValues, metricSelect, sliderValue,
                  sliderMax, timeVars >>
  /\ loadTrafficForCurrentSlider
  /\ UNCHANGED << timelineVars, cardVars, layersVisible, loadPc, mapVars, frameVars,
                  lastResponse >>

\* metricSelect 'change'
MetricChange(m) ==
  /\ m # metricSelect
  /\ metricSelect' = m
  /\ UNCHANGED << chkTraffic, chkRumore, chkValues, classSelect, sliderValue,
                  sliderMax, timeVars >>
  /\ loadTrafficForCurrentSlider
  /\ UNCHANGED << timelineVars, cardVars, layersVisible, loadPc, mapVars, frameVars,
                  lastResponse >>

(***************************************************************************)
(* Timeline handlers.  The user reaches a timeline control only while the  *)
(* timeline card is shown and the control is not disabled.                 *)
(***************************************************************************)
Usable(flag) == ~flag /\ ~timelineHidden

\* What a timeline handler does after it has set the slider: paint, label,
\* refresh (the fill and the time label are styling, not modelled).
AfterSliderSet ==
  /\ UNCHANGED << chkTraffic, chkRumore, chkValues, classSelect, metricSelect,
                  sliderMax, timeVars >>
  /\ loadTrafficForCurrentSlider
  /\ UNCHANGED << cardVars, layersVisible, loadPc, mapVars, frameVars, lastResponse >>

\* A handler that returns at its first line: the traffic layer is off.
EarlyReturn ==
  /\ step' = Quiet
  /\ UNCHANGED << chkTraffic, chkRumore, chkValues, classSelect, metricSelect,
                  sliderValue, sliderMax, timelineVars, cardVars, layersVisible,
                  timeVars, loadPc, mapVars, pending, newest, frameVars, lastResponse >>

\* Where the user drops the slider: either end, and one unit off either end.
DragTargets(max) == {0, 1, max - 1, max}

\* slider 'input': the user has dragged the slider to v.
SliderInput(v) ==
  /\ Usable(disabled.slider)
  /\ v \in 0..sliderMax
  /\ v # sliderValue
  /\ sliderValue' = v
  /\ IF ~chkTraffic
     THEN /\ step' = Quiet
          /\ UNCHANGED << chkTraffic, chkRumore, chkValues, classSelect,
                          metricSelect, sliderMax, timelineVars, cardVars,
                          layersVisible, timeVars, loadPc, mapVars, pending, newest,
                          frameVars, lastResponse >>
     ELSE AfterSliderSet /\ UNCHANGED timelineVars

\* (mutant) the lower clamp is missing.
PrevTargetUnclamped(current) == current - PrevNextStep

\* Math.max(0, current - 20)
PrevTarget(current) == Max2(0, current - PrevNextStep)

\* Math.min(max, current + 20)
NextTarget(current, max) == Min2(max, current + PrevNextStep)

\* btnPrev 'click'
PrevClick ==
  /\ Usable(disabled.prev)
  /\ IF ~chkTraffic THEN EarlyReturn
     ELSE /\ sliderValue' = PrevTarget(sliderValue)
          /\ AfterSliderSet
          /\ UNCHANGED timelineVars

\* btnNext 'click'
NextClick ==
  /\ Usable(disabled.next)
  /\ IF ~chkTraffic THEN EarlyReturn
     ELSE /\ sliderValue' = NextTarget(sliderValue, sliderMax)
          /\ AfterSliderSet
          /\ UNCHANGED timelineVars

\* setInterval returns a handle no live timer has.
FreeHandle == CHOOSE h \in 1..MaxTimers : h \notin timers /\ \A k \in 1..(h - 1) : k \in timers

\* (mutant) the handle is dropped without clearInterval.
PausePlaybackKeepsTimer ==
  /\ timers' = timers
  /\ playInterval' = 0
  /\ playIcon' = "fa-play"

\* The pause branch of the play handler.
PausePlayback ==
  /\ timers' = timers \ {playInterval}
  /\ playInterval' = 0
  /\ playIcon' = "fa-play"

\* The play branch of the play handler.
StartPlayback ==
  /\ \E h \in 1..MaxTimers : h \notin timers
  /\ playIcon' = "fa-pause"
  /\ playInterval' = FreeHandle
  /\ timers' = timers \cup {FreeHandle}

\* btnPlay 'click'
PlayClick ==
  /\ Usable(disabled.play)
  /\ IF ~chkTraffic THEN EarlyReturn
     ELSE /\ IF playIcon = "fa-pause" THEN PausePlayback ELSE StartPlayback
          /\ NoRefresh
          /\ UNCHANGED << controlVars, disabled, cardVars, layersVisible, timeVars,
                          loadPc, mapVars, frameVars, lastResponse >>

\* (mutant) from the max on the slider is held at the max.
TickTargetSticksAtMax(current, max) == IF current >= max THEN max ELSE current + TickStep

\* (mutant) the wrap to 0 is missing.
TickTargetNoWrap(current, max) == current + TickStep

\* Where a tick moves the slider.
TickTarget(current, max) == IF current >= max THEN 0 ELSE current + TickStep

\* One firing of the interval timer h.
Tick(h) ==
  /\ h \in timers
  /\ sliderValue' = TickTarget(sliderValue, sliderMax)
  /\ AfterSliderSet
  /\ UNCHANGED timelineVars

(***************************************************************************)
(* The map 'load' handler, one action per await.  A rejected fetchJson     *)
(* outside try/catch ends the handler: loadPc becomes "aborted".           *)
(***************************************************************************)
LoadAdvance(from, to, failed) ==
  /\ loadPc = from
  /\ loadPc' = to
  /\ step' = [Quiet EXCEPT !.threw = failed]
  /\ UNCHANGED << controlVars, timelineVars, cardVars, layersVisible, timeVars,
                  pending, newest, frameVars, lastResponse >>

LoadStep(from, to, failed) ==
  /\ LoadAdvance(from, to, failed)
  /\ UNCHANGED mapVars

\* map 'load': the layers are added and the icon mapping is requested.
MapLoad == LoadStep("idle", "icon", FALSE)

\* The icon mapping arrives, or its failure is caught and logged.
LoadIcon == LoadStep("icon", "roads", FALSE)

\* /api/map/roads_static answers response, or the fetch rejects.
LoadRoadsWith(ok, response) ==
  IF ok
  THEN /\ LoadAdvance("roads", "buildings", FALSE)
       /\ roadsData' = normalizeFeatureCollection(response)
       /\ UNCHANGED fitted
  ELSE LoadStep("roads", "aborted", TRUE)

\* /api/map/roads_static
LoadRoads(ok) == LoadRoadsWith(ok, StaticRoads)

\* /api/map/buildings; then the map is fitted to the bounds of the roads, if
\* they have any.
LoadBuildings(ok) ==
  IF ok
  THEN /\ LoadAdvance("buildings", "meta", FALSE)
       /\ fitted' = IF getFeatureCollectionBounds(roadsData).t = "null"
                    THEN fitted ELSE getFeatureCollectionBounds(roadsData)
       /\ UNCHANGED roadsData
  ELSE LoadStep("buildings", "aborted", TRUE)

\* /api/map/meta rejects.
LoadMetaFails == LoadStep("meta", "aborted", TRUE)

\* /api/map/meta resolves: the bounds are set, the controls enabled, the
\* visibility updated and the first frame requested.
LoadMeta(meta) ==
  /\ loadPc = "meta"
  /\ loadPc' = "done"
  /\ timeMin' = toEpochSeconds(RawMin(meta))
  /\ timeMax' = toEpochSeconds(RawMax(meta))
  /\ UNCHANGED controlVars
  /\ updateTimelineAndLegendVisibility(AllEnabled)
  /\ loadTrafficForCurrentSlider
  /\ UNCHANGED << layersVisible, mapVars, frameVars, lastResponse >>

(***************************************************************************)
(* loadTrafficForCurrentSlider after its await.  isNewest tells whether    *)
(* the call that resumes is the most recently issued one; any other        *)
(* pending call is an older one.                                           *)
(***************************************************************************)
CanResume(isNewest) ==
  IF isNewest THEN newest = "pending"
  ELSE pending > (IF newest = "pending" THEN 1 ELSE 0)

\* Whether the call throws after its await: response.stats of null, or
\* buildValuesLabels on an entry null while the labels are on.
RenderThrows(response) ==
  \/ response.kind = "null"
  \/ chkValues /\ LabelsThrow(normalizeFeatureCollection(response))

\* (mutant) without a peak, the marker of the last frame is kept.
PeakPushedKeepsMarker(peak) ==
  IF peak.t = "null" THEN peakData ELSE << peak.v >>

\* The data of the peak layer after line 534: peak ? [peak] : [].
PeakPushed(peak) ==
  IF peak.t = "null" THEN << >> ELSE << peak.v >>

\* (mutant) with the labels off, the labels of the last frame are kept.
LabelsPushedCarriedOver(featureCollection) ==
  IF ~chkValues THEN valuesData
  ELSE IF LabelsThrow(featureCollection) THEN valuesData
  ELSE buildValuesLabels(featureCollection)

\* The data of the label layer after lines 536-541.
LabelsPushed(featureCollection) ==
  IF ~chkValues THEN << >>
  ELSE IF LabelsThrow(featureCollection) THEN valuesData
  ELSE buildValuesLabels(featureCollection)

\* The frame as lines 515-541 push it for a response that is not null.  When
\* buildValuesLabels throws, the labels are the one layer left as it was.
RenderFrame(response) ==
  LET featureCollection == normalizeFeatureCollection(response)
      stats == IF response.stats.present THEN response.stats ELSE DefaultStats
      peak == getPeakPoint(featureCollection, stats)
  IN /\ currentStats' = stats
     /\ legendMin' = IF IsFinite(stats.min) THEN toFixed2(stats.min.v) ELSE "min"
     /\ legendMax' = IF IsFinite(stats.max) THEN toFixed2(stats.max.v) ELSE "max"
     /\ trafficData' = featureCollection
     /\ peakData' = PeakPushed(peak)
     /\ valuesData' = LabelsPushed(featureCollection)

\* fetchJson resolves with response.  Reading response.stats of null throws
\* a TypeError, which ends the call before it has pushed anything.
Resolve(isNewest, response) ==
  /\ CanResume(isNewest)
  /\ pending' = pending - 1
  /\ lastResponse' = [got |-> TRUE, payload |-> response]
  /\ IF response.kind = "null" THEN UNCHANGED frameVars ELSE RenderFrame(response)
  /\ newest' = IF isNewest
               THEN (IF RenderThrows(response) THEN "failed" ELSE "rendered")
               ELSE IF response.kind # "null" /\ newest = "rendered" THEN "lost"
               ELSE newest
  /\ step' = [Quiet EXCEPT !.resolved = TRUE, !.threw = RenderThrows(response)]
  /\ UNCHANGED << controlVars, timelineVars, cardVars, layersVisible, timeVars,
                  loadPc, mapVars >>

\* (mutant) the rejection is handled by stopping the playback.
RejectStopsPlayback(isNewest) ==
  /\ CanResume(isNewest)
  /\ pending' = pending - 1
  /\ newest' = IF isNewest THEN "failed" ELSE newest
  /\ step' = [Quiet EXCEPT !.threw = TRUE, !.rejected = TRUE]
  /\ timers' = {} /\ playInterval' = 0 /\ playIcon' = "fa-play"
  /\ UNCHANGED << controlVars, disabled, cardVars, layersVisible, timeVars,
                  loadPc, mapVars, frameVars, lastResponse >>

\* fetchJson rejects (the network fails, or the body is no JSON): the call
\* ends with an unhandled rejection.
Reject(isNewest) ==
  /\ CanResume(isNewest)
  /\ pending' = pending - 1
  /\ newest' = IF isNewest THEN "failed" ELSE newest
  /\ step' = [Quiet EXCEPT !.threw = TRUE, !.rejected = TRUE]
  /\ UNCHANGED << controlVars, timelineVars, cardVars, layersVisible, timeVars,
                  loadPc, mapVars, frameVars, lastResponse >>

(***************************************************************************)
(* Specification.                                                          *)
(***************************************************************************)
Handlers ==
  \/ ChkTrafficChange
  \/ ChkRumoreChange
  \/ ChkValuesChange
  \/ \E c \in ClassOptions : ClassChange(c)
  \/ \E m \in MetricOptions : MetricChange(m)
  \/ \E v \in DragTargets(sliderMax) : SliderInput(v)
  \/ PrevClick
  \/ NextClick
  \/ PlayClick
  \/ \E h \in 1..MaxTimers : Tick(h)
  \/ MapLoad
  \/ LoadIcon
  \/ \E ok \in BOOLEAN : LoadRoads(ok)
  \/ \E ok \in BOOLEAN : LoadBuildings(ok)
  \/ LoadMetaFails
  \/ \E meta \in Metas : LoadMeta(meta)
  \/ \E isNewest \in BOOLEAN : Reject(isNewest)

\* The timeline under a server that answers well-formed frames.
Next ==
  \/ Handlers
  \/ \E isNewest \in BOOLEAN, response \in FramePayloads : Resolve(isNewest, response)

Spec == Init /\ [][Next]_vars

\* The frame loader under a server that answers any payload.
NextNet ==
  \/ Handlers
  \/ \E isNewest \in BOOLEAN, response \in Payloads : Resolve(isNewest, response)

SpecNet == InitNet /\ [][NextNet]_vars

\* The frame builder under every case of FrameCases: a page that starts with
\* both cards shown, the rumore layer off and the slider at 0, and a user who
\* leaves the timeline and the selectors alone.
InitFrame ==
  /\ InitNet
  /\ ~chkRumore /\ ~timelineHidden /\ ~legendHidden /\ sliderValue = 0

NextFrame ==
  \/ ChkTrafficChange
  \/ ChkValuesChange
  \/ MapLoad
  \/ LoadIcon
  \/ \E ok \in BOOLEAN : LoadRoads(ok)
  \/ \E ok \in BOOLEAN : LoadBuildings(ok)
  \/ LoadMetaFails
  \/ \E meta \in Metas : LoadMeta(meta)
  \/ \E isNewest \in BOOLEAN : Reject(isNewest)
  \/ \E isNewest \in BOOLEAN, response \in FrameCases : Resolve(isNewest, response)

SpecFrame == InitFrame /\ [][NextFrame]_vars

\* The time codec under every case of MetaCases: the same page and user, and
\* a server that answers well-formed frames.
NextCodec ==
  \/ ChkTrafficChange
  \/ ChkValuesChange
  \/ MapLoad
  \/ LoadIcon
  \/ \E ok \in BOOLEAN : LoadRoads(ok)
  \/ \E ok \in BOOLEAN : LoadBuildings(ok)
  \/ LoadMetaFails
  \/ \E meta \in MetaCases : LoadMeta(meta)
  \/ \E isNewest \in BOOLEAN : Reject(isNewest)
  \/ \E isNewest \in BOOLEAN, response \in FramePayloads : Resolve(isNewest, response)

SpecCodec == InitFrame /\ [][NextCodec]_vars

\* The bounds of the static roads under every case of RoadCases: the same
\* page and user, and a server that answers well-formed frames.
NextBounds ==
  \/ ChkTrafficChange
  \/ ChkValuesChange
  \/ MapLoad
  \/ LoadIcon
  \/ \E ok \in BOOLEAN, response \in RoadCases : LoadRoadsWith(ok, response)
  \/ \E ok \in BOOLEAN : LoadBuildings(ok)
  \/ LoadMetaFails
  \/ \E meta \in Metas : LoadMeta(meta)
  \/ \E isNewest \in BOOLEAN : Reject(isNewest)
  \/ \E isNewest \in BOOLEAN, response \in FramePayloads : Resolve(isNewest, response)

SpecBounds == InitFrame /\ [][NextBounds]_vars

\* An interval timer is live.
Playing == timers # {}

\* Uninterrupted playback: pages of every slider.max up to PlayMax with the
\* traffic layer on and the timeline shown, and a user who does nothing but
\* start the playback.  The interval timer keeps firing and every fetch is
\* answered or fails in the end.
InitPlay ==
  /\ \E max \in 1..PlayMax : InitWith(max)
  /\ chkTraffic /\ ~chkRumore /\ ~chkValues /\ ~timelineHidden /\ ~legendHidden

\* A click on Play while nothing plays.
PlayStart == ~Playing /\ PlayClick

\* A fetch in flight settles.
Settle ==
  \/ \E isNewest \in BOOLEAN : Reject(isNewest)
  \/ \E isNewest \in BOOLEAN, response \in FramePayloads : Resolve(isNewest, response)

NextPlay ==
  \/ MapLoad
  \/ LoadIcon
  \/ \E ok \in BOOLEAN : LoadRoads(ok)
  \/ \E ok \in BOOLEAN : LoadBuildings(ok)
  \/ LoadMetaFails
  \/ \E meta \in Metas : LoadMeta(meta)
  \/ PlayStart
  \/ \E h \in 1..MaxTimers : Tick(h)
  \/ \E isNewest \in BOOLEAN : Reject(isNewest)
  \/ \E isNewest \in BOOLEAN, response \in FramePayloads : Resolve(isNewest, response)

SpecPlay ==
  /\ InitPlay /\ [][NextPlay]_vars
  /\ WF_vars(\E h \in 1..MaxTimers : Tick(h))
  /\ WF_vars(Settle)

(***************************************************************************)
(* Properties.                                                             *)
(***************************************************************************)
TimeRangeLoaded == IsFinite(timeMin) /\ IsFinite(timeMax)

\* The frame a response stands for: the normalized collection, its stats or
\* the default ones, the legend, the peak and (if shown) the labels of it.
FrameOf(response) ==
  LET featureCollection == normalizeFeatureCollection(response)
      stats == IF response.stats.present THEN response.stats ELSE DefaultStats
      peak == getPeakPoint(featureCollection, stats)
  IN [stats |-> stats,
      legendMin |-> IF IsFinite(stats.min) THEN toFixed2(stats.min.v) ELSE "min",
      legendMax |-> IF IsFinite(stats.max) THEN toFixed2(stats.max.v) ELSE "max",
      traffic |-> featureCollection,
      peak |-> IF peak.t = "null" THEN << >> ELSE << peak.v >>,
      labels |-> buildValuesLabels(featureCollection)]

ShowsFrameOf(response) ==
  LET frame == FrameOf(response)
  IN /\ currentStats = frame.stats
     /\ legendMin = frame.legendMin
     /\ legendMax = frame.legendMax
     /\ trafficData = frame.traffic
     /\ peakData = frame.peak
     /\ valuesData \in {frame.labels, << >>}

\* C1: after a change of the traffic or the rumore checkbox that leaves the
\* traffic layer off, no interval timer is left, playInterval is null and the
\* play icon shows fa-play.
C1_TrafficOffForcesIdle ==
  [][ ((chkTraffic' # chkTraffic \/ chkRumore' # chkRumore) /\ ~chkTraffic')
      => (timers' = {} /\ playInterval' = 0 /\ playIcon' = "fa-play") ]_vars

\* C2: once no fetch is in flight, the frame shown (stats, legend, traffic
\* data, peak marker, labels) is the frame of the response that resolved last.
C2_LastResolvedWins ==
  (pending = 0 /\ lastResponse.got) => ShowsFrameOf(lastResponse.payload)

\* C3: once no fetch is in flight, the frame of the most recently issued
\* refresh has not been replaced by the frame of an older refresh.
C3_LatestIssuedWins ==
  pending = 0 => newest # "lost"

\* C4: while timeMin and timeMax are not both finite, the slider and the three
\* buttons are disabled and no playback timer exists.
C4_DisabledUntilTimeRange ==
  ~TimeRangeLoaded => (disabled = AllDisabled /\ timers = {} /\ playInterval = 0)

\* C5: the scrub position is always within [0, slider.max].
C5_ScrubInRange ==
  sliderValue \in 0..sliderMax

\* C6: a Play click while not playing starts a timer and shows fa-pause;
\* every tick moves the slider by +2, or to 0 from the max on, and calls the
\* refresh once, which fetches iff the traffic layer is on and the range set.
C6_PlayStartsTicks ==
  [][ /\ (PlayClick /\ ~Playing)
         => (playInterval' # 0 /\ timers' = {playInterval'} /\ playIcon' = "fa-pause")
      /\ \A h \in 1..MaxTimers :
           Tick(h) => /\ sliderValue' = (IF sliderValue >= sliderMax THEN 0
                                         ELSE sliderValue + 2)
                      /\ step'.calls = 1
                      /\ step'.fetched = (chkTraffic' /\ TimeRangeLoaded') ]_vars

\* Playback is running and the slider has just wrapped to 0 with a refresh.
C6_Witness ==
  Playing /\ playIcon = "fa-pause" /\ sliderValue = 0 /\ step.fetched

\* C7: a Play click while playing leaves no timer, shows fa-play and changes
\* neither the slider, the frame nor the fetches in flight; while no timer
\* exists only a Play click creates one and only the user moves the slider.
C7_PauseCancelsTicks ==
  [][ /\ (PlayClick /\ Playing)
         => /\ timers' = {} /\ playInterval' = 0 /\ playIcon' = "fa-play"
            /\ sliderValue' = sliderValue
            /\ pending' = pending /\ ~step'.fetched
            /\ UNCHANGED frameVars
      /\ (~Playing /\ Playing') => PlayClick
      /\ (~Playing /\ sliderValue' # sliderValue)
         => ((\E v \in 0..sliderMax : SliderInput(v)) \/ PrevClick \/ NextClick) ]_vars

\* Playback was paused past the max: only a tick puts the slider there.
C7_Witness ==
  ~Playing /\ playIcon = "fa-play" /\ chkTraffic /\ sliderValue = sliderMax + 1
    /\ step = Quiet

\* C8: a Prev click sets the slider to max(0, p - 20), a Next click to
\* min(max, p + 20); each calls the refresh once and leaves the play icon,
\* playInterval and the timers as they were.
C8_PrevNextClamp ==
  [][ /\ PrevClick => /\ sliderValue' = Max2(0, sliderValue - 20)
                      /\ step'.calls = 1
                      /\ UNCHANGED << playIcon, playInterval, timers >>
      /\ NextClick => /\ sliderValue' = Min2(sliderMax, sliderValue + 20)
                      /\ step'.calls = 1
                      /\ UNCHANGED << playIcon, playInterval, timers >> ]_vars

\* A refresh at position 1, where Prev lands from the max.
C8_Witness ==
  ~Playing /\ sliderValue = sliderMax - PrevNextStep /\ step.fetched

\* C9: a call of the refresh with the traffic layer off, or with no slider
\* epoch, fetches nothing, raises nothing and leaves the frame as it was.
C9_RefreshNoOp ==
  [][ (/\ step'.calls = 1
       /\ \/ ~chkTraffic'
          \/ getSliderEpoch(sliderValue', sliderMax', timeMin', timeMax').t = "null")
      => (/\ ~step'.fetched /\ ~step'.threw
          /\ pending' = pending
          /\ UNCHANGED frameVars) ]_vars

\* The refresh was called with the traffic layer off and the range set.
C9_Witness ==
  step.calls = 1 /\ ~chkTraffic /\ TimeRangeLoaded

\* The refresh was called with the traffic layer on and no range set.
C9_WitnessNoEpoch ==
  step.calls = 1 /\ chkTraffic /\ ~TimeRangeLoaded

Malformed(response) ==
  ~(response.kind = "object" /\ response.type = "FeatureCollection"
    /\ response.featuresIsArray)

\* C10: whatever fetchJson resolves with, the refresh raises no error and
\* pushes the normalized collection: the empty collection and no peak marker
\* for a malformed payload, a well-formed collection unchanged.
C10_AnyPayloadRendered ==
  step.resolved
  => /\ ~step.threw
     /\ trafficData = normalizeFeatureCollection(lastResponse.payload)
     /\ Malformed(lastResponse.payload) => (trafficData = EmptyFC /\ peakData = << >>)

\* The last step was a refresh that ran to its end after its response.
Completed == step.resolved /\ ~step.threw

\* C11: after a completed refresh the stats held are the response's stats when
\* these have a finite min and a finite max, and {min: 0, max: 1} otherwise;
\* the stats held always have a finite min and a finite max.
C11_StatsDefaulted ==
  /\ Completed
     => LET stats == lastResponse.payload.stats
        IN currentStats = IF stats.present /\ IsFinite(stats.min) /\ IsFinite(stats.max)
                          THEN stats ELSE DefaultStats
  /\ IsFinite(currentStats.min) /\ IsFinite(currentStats.max)

\* A feature that gets a label: a LineString of at least two coordinates.
Labelled(f) == ~f.isNull /\ f.geomType = "LineString" /\ Len(f.coordinates) >= 2

\* The number a label prints: Number(properties && properties.value).
LabelValue(f) == IF f.hasProps THEN ToNumber(f.value) ELSE NaN

C12_WitnessCleared ==
  Completed /\ ~chkValues /\ Len(trafficData.features) = 2 /\ valuesData = << >>

\* The last step pushed a frame: fetchJson resolved with a response other
\* than null.
Pushed == step.resolved /\ lastResponse.payload.kind # "null"

\* The features with a finite value, by index, and the value of each.
Valued(fs) ==
  {i \in 1..Len(fs) : ~fs[i].isNull /\ fs[i].hasProps /\ IsFinite(ToNumber(fs[i].value))}

ValueOf(f) == ToNumber(f.value).v

\* The first feature of the greatest value (Valued(fs) is not empty).
Winner(fs) ==
  CHOOSE i \in Valued(fs) :
    \A j \in Valued(fs) : \/ ValueOf(fs[j]) < ValueOf(fs[i])
                          \/ ValueOf(fs[j]) = ValueOf(fs[i]) /\ j >= i

Ordered(stats) == IsFinite(stats.min) /\ IsFinite(stats.max) /\ stats.max.v > stats.min.v
Flat(stats) == IsFinite(stats.min) /\ IsFinite(stats.max) /\ stats.max.v <= stats.min.v

\* A ratio <<numerator, denominator>> within [0, 1], over a denominator that
\* is not zero.
InUnit(r) == r[2] > 0 /\ 0 <= r[1] /\ r[1] <= r[2]
AtMost(r, q) == r[1] * q[2] <= q[1] * r[2]
IsZero(r) == r[1] = 0

\* The values a line may carry: the numbers around the stops, and values
\* that are missing, null or no numeral.
ProbeValues == {Num(v) : v \in RampValues} \cup {Undefined, Null, Text}

C15_WitnessFlat ==
  /\ Pushed /\ Flat(currentStats)
  /\ Len(peakData) = 1 /\ peakData[1].color = PeakColors[1]

\* The colour the ramp gives to the ratio r, with the alphas of a palette.
Ramp(r, alphas) ==
  IF 100 * r[1] < 33 * r[2] THEN <<46, 127, 255, alphas[1]>>
  ELSE IF 100 * r[1] < 66 * r[2] THEN <<39, 209, 124, alphas[2]>>
  ELSE IF 100 * r[1] < 90 * r[2] THEN <<255, 212, 77, alphas[3]>>
  ELSE <<255, 59, 59, alphas[4]>>

\* C16: the colour of the peak marker is blue below 0.33, green from 0.33 to
\* below 0.66, amber from 0.66 to below 0.90 and red from 0.90 on, each with
\* alpha 255; the colour of every line is the same step function of its
\* ratio with the alphas 210, 210, 210 and 220.
C16_FourStopRamp ==
  /\ (Pushed /\ Len(peakData) = 1)
     => peakData[1].color
          = Ramp(PeakRatio(peakData[1].value, currentStats), <<255, 255, 255, 255>>)
  /\ \A i \in 1..Len(trafficData.features) :
       ~trafficData.features[i].isNull
       => getLineColor(trafficData.features[i], currentStats)
            = Ramp(LineRatio(trafficData.features[i], currentStats),
                   <<210, 210, 210, 220>>)
  /\ \A x \in ProbeValues :
       getLineColor(Line(x), currentStats)
         = Ramp(LineRatio(Line(x), currentStats), <<210, 210, 210, 220>>)

\* A road of value 33 on the range 0..100: the marker and the line are green,
\* the colour of the stop that starts at 0.33.
C16_Witness ==
  /\ Pushed /\ currentStats = Stats(Num(0), Num(100))
  /\ Len(peakData) = 1 /\ peakData[1].value = 33
  /\ peakData[1].color = <<39, 209, 124, 255>>
  /\ getLineColor(trafficData.features[1], currentStats) = <<39, 209, 124, 210>>

\* c is timeMin + (value / max) * (timeMax - timeMin) rounded to the nearest
\* integer, a half upwards.
IsRoundedEpoch(c, value, max, tMin, tMax) ==
  LET twice == 2 * max * (c - tMin) - 2 * value * (tMax - tMin)
  IN -max < twice /\ twice <= max

\* C17: a call of the refresh with the traffic layer on and the range set
\* issues one fetch, and every fetch issued asks for the window
\* [c - 300, c + 300] around the rounded epoch c of the slider as the handler
\* left it, with the class and the metric the selectors then show;
\* getWindowFromEpoch(c, m) is [c - 60m, c + 60m].
C17_FetchOfCurrentControls ==
  [][ /\ (step'.calls = 1 /\ chkTraffic' /\ TimeRangeLoaded')
         => (step'.fetched /\ pending' = pending + 1)
      /\ step'.fetched
         => /\ step'.calls = 1 /\ pending' = pending + 1
            /\ chkTraffic' /\ TimeRangeLoaded'
            /\ step'.url.to - step'.url.fr = 600
            /\ IsRoundedEpoch(step'.url.fr + 300, sliderValue', sliderMax',
                              timeMin'.v, timeMax'.v)
            /\ step'.url.veh_class = classSelect'
            /\ step'.url.metric = metricSelect'
      /\ \A c \in 998..1002, m \in 0..WindowMinutes :
           getWindowFromEpoch(c, m) = << c - 60 * m, c + 60 * m >> ]_vars

\* A fetch for the cars' speed around the epoch 1001, the middle of the range.
C17_Witness ==
  /\ step.fetched /\ step.url = [fr |-> 701, to |-> 1301, veh_class |-> "car",
                                  metric |-> "speed"]
  /\ sliderValue \in 1..(sliderMax - 1)

\* C18: a rejected fetch ends its refresh without a new fetch and without a
\* change of the stats, the legend or the data of the traffic, peak and label
\* layers; the slider, the controls and the playback timer stay as they were,
\* and right after it every live timer can tick, which moves the slider and
\* calls the refresh.
C18_RejectionLeavesFrame ==
  /\ [][ \A isNewest \in BOOLEAN :
           Reject(isNewest)
           => /\ UNCHANGED frameVars
              /\ UNCHANGED << controlVars, timelineVars >>
              /\ pending' = pending - 1 /\ ~step'.fetched /\ step'.calls = 0 ]_vars
  /\ [](step.rejected => \A h \in timers : ENABLED Tick(h))

\* A fetch has just been rejected while the playback runs over a rendered
\* frame.
C18_Witness ==
  /\ step.rejected /\ Playing /\ playIcon = "fa-pause"
  /\ Len(trafficData.features) > 0 /\ Len(peakData) = 1

\* C19: whatever the outcome of the icon mapping, the static roads and the
\* buildings, the 'load' handler goes on to its next load and so reaches the
\* metadata, the enabling of the controls and the first refresh.
C19_AuxFailuresCaught ==
  [][ (loadPc \in {"icon", "roads", "buildings"} /\ loadPc' # loadPc)
      => loadPc' \in {"roads", "buildings", "meta"} ]_vars

\* What the codec owes for a raw time: a number below 1e10 unchanged, a
\* number from 1e10 on divided by 1000 and floored, a value that is missing
\* or no date a value that is not finite.  A number is hi * 10^5 + lo.
IsEpochOf(raw, result) ==
  CASE raw.t = "num" /\ raw.hi < 100000 ->
         /\ IsFinite(result)
         /\ result.v \div 100000 = raw.hi /\ result.v % 100000 = raw.lo
    [] raw.t = "num" /\ raw.hi >= 100000 ->
         /\ IsFinite(result)
         /\ result.v \div 100 = raw.hi /\ result.v % 100 = raw.lo \div 1000
    [] raw.t \in {"baddate", "undefined"} -> ~IsFinite(result)
    [] OTHER -> TRUE

\* C20: the 'load' handler stores, for a numeric raw time below 1e10, that
\* number, for one from 1e10 on its floored thousandth, and for a missing
\* value or a string that is no date a value that is not finite; metadata
\* with neither key shape leaves timeMin and timeMax not finite, and the
\* handler runs to its end without an error.
C20_EpochSecondsCodec ==
  [][ \A meta \in MetaCases :
        LoadMeta(meta)
        => /\ IsEpochOf(RawMin(meta), timeMin')
           /\ IsEpochOf(RawMax(meta), timeMax')
           /\ loadPc' = "done" /\ ~step'.threw
           /\ meta.shape = "none"
              => (~IsFinite(timeMin') /\ ~IsFinite(timeMax')) ]_vars

\* The metadata gave 1e10 and 1e10 + 1500 milliseconds: the range is
\* 10000000 .. 10000001 seconds.
C20_Witness ==
  loadPc = "done" /\ timeMin = Num(10000000) /\ timeMax = Num(10000001)

\* The metadata had neither key shape: the handler is done, the range is not
\* finite.
C20_WitnessNoKeys ==
  loadPc = "done" /\ timeMin = NaN /\ timeMax = NaN /\ ~step.threw

\* Every pair <<x, y>> of finite numbers that starts an array of the tree, at
\* whatever depth.
RECURSIVE PairsOf(_)
PairsOf(coords) ==
  IF coords.k # "arr" THEN {}
  ELSE (IF /\ Len(coords.items) >= 2
           /\ coords.items[1].k = "num" /\ coords.items[1].finite
           /\ coords.items[2].k = "num" /\ coords.items[2].finite
        THEN {<< coords.items[1].n, coords.items[2].n >>} ELSE {})
       \cup UNION {PairsOf(coords.items[i]) : i \in 1..Len(coords.items)}

\* The pairs of all features of a collection.
AllPairs(fc) ==
  UNION {PairsOf(fc.features[i].coordinates) :
           i \in {j \in 1..Len(fc.features) : fc.features[j].hasCoordinates}}

\* The 'load' handler is past the fit of the map to the roads.
PastFit == loadPc \in {"meta", "done"}

\* C21: the bounds of the roads are null when no array of their coordinates
\* starts with two finite numbers, at any depth, and else the least and the
\* greatest x and y over all such pairs; the map is fitted to exactly these
\* bounds, and not fitted when they are null.
C21_BoundsOverAllPairs ==
  LET pairs == AllPairs(roadsData)
      bounds == getFeatureCollectionBounds(roadsData)
  IN /\ IF pairs = {} THEN bounds.t = "null"
        ELSE /\ bounds.t = "bounds"
             /\ \A p \in pairs : /\ bounds.v[1][1] <= p[1] /\ p[1] <= bounds.v[2][1]
                                 /\ bounds.v[1][2] <= p[2] /\ p[2] <= bounds.v[2][2]
             /\ \E p \in pairs : p[1] = bounds.v[1][1]
             /\ \E p \in pairs : p[2] = bounds.v[1][2]
             /\ \E p \in pairs : p[1] = bounds.v[2][1]
             /\ \E p \in pairs : p[2] = bounds.v[2][2]
     /\ PastFit => /\ fitted.t = bounds.t
                   /\ bounds.t = "bounds" => fitted.v = bounds.v

\* The map was fitted to the bounds of a line, a polygon and a multi-polygon.
C21_Witness ==
  /\ PastFit /\ Len(roadsData.features) = 3
  /\ fitted.t = "bounds" /\ fitted.v = << <<-2, -8>>, <<14, 12>> >>

\* Roads without a single finite pair: the map was not fitted.
C21_WitnessNull ==
  PastFit /\ Len(roadsData.features) > 0 /\ fitted.t = "null"

\* The frame before any response: the stats, legend and layer data the page
\* and createLayers start with.
ShowsInitialFrame ==
  /\ currentStats = DefaultStats /\ legendMin = "min" /\ legendMax = "max"
  /\ trafficData = EmptyFC /\ peakData = << >> /\ valuesData = << >>

\* C22: in every state between two handlers the stats, the legend, the data
\* of the traffic layer, the peak marker and the labels are those of one
\* response (the labels those of that response, or none when they were off),
\* or the frame the page started with; no state shows parts of two frames.
C22_FrameOfOneResponse ==
  \/ ShowsInitialFrame
  \/ \E response \in FrameCases : response.kind # "null" /\ ShowsFrameOf(response)

\* C23: the play icon shows fa-pause exactly while playInterval holds a
\* handle, and the timers of the event loop are exactly that handle: never
\* two timers, and never a timer no variable holds.
C23_PauseIconIffTimer ==
  /\ (playIcon = "fa-pause") <=> (playInterval # 0)
  /\ timers = (IF playInterval = 0 THEN {} ELSE {playInterval})
  /\ Cardinality(timers) <= 1

\* Playback was stopped by a checkbox: the traffic layer is off, the rumore
\* layer on, the controls disabled, and a frame shows that it once ran.
C23_Witness ==
  /\ ~chkTraffic /\ chkRumore /\ disabled = AllDisabled
  /\ playIcon = "fa-play" /\ playInterval = 0 /\ timers = {}
  /\ sliderValue = sliderMax + 1

\* Playback runs on although both layers are off (the state of C1).
C23_WitnessBothOff ==
  ~chkTraffic /\ ~chkRumore /\ playIcon = "fa-pause" /\ timers = {playInterval}

\* C24: whenever the playback runs, the slider is at 0 again later on; as
\* nothing stops the playback here, it is at 0 infinitely often, for every
\* slider.max and every position the playback starts from.
C24_PlaybackReturnsToZero ==
  Playing ~> (sliderValue = 0)

\* A tick has just wrapped the slider of an odd max to 0 and fetched its frame.
C24_Witness ==
  /\ Playing /\ sliderValue = 0 /\ step.calls = 1
  /\ sliderMax = 5 /\ pending > 0

====
